---- MODULE Spec2Model ----
(***************************************************************************)
(* Approval queue of approval-lane-buddy: the approval_requests /          *)
(* approval_actions tables with their row-level-security policies, the     *)
(* update_queue_positions trigger (migration 20250923082732) and the       *)
(* client operations handleSubmit and handleApprovalAction that write to   *)
(* them.  Every client request to the store is one READ COMMITTED          *)
(* transaction: it executes against the committed table (the trigger runs  *)
(* here), holds row locks on the rows it wrote, and commits later.         *)
(***************************************************************************)
EXTENDS Integers, FiniteSets, Sequences, TLC

\* ---------------------------------------------------------------- bounds
\* MaxRequests and MaxTime bound the requests and the clock where sessions
\* overlap, MaxQueue bounds both where a single session works alone
MaxRequests == 2
MaxTime == 1
MaxActions == 2
MaxQueue == 3
MaxFetches == 2

\* ------------------------------------------------------- schema constants
NULL == 0
MaxIds == IF MaxQueue > MaxRequests THEN MaxQueue ELSE MaxRequests
MaxClock == IF MaxQueue > MaxTime THEN MaxQueue ELSE MaxTime
Ids == 1..MaxIds
Users == {"emp", "apr", "adm"}
Roles == {"employee", "approver", "admin"}
Terminal == {"approved", "rejected"}
Statuses == {"pending"} \cup Terminal
\* status and title are TEXT columns: some values a client may send
StatusTexts == Statuses \cup {"cancelled"}
Titles == {"", "new", "edited"}

\* profiles.role of the three principals
InitRole == [u \in Users |->
               CASE u = "emp" -> "employee"
                 [] u = "apr" -> "approver"
                 [] u = "adm" -> "admin"]

VARIABLES
  requests,   \* approval_requests: committed rows, id -> row
  actions,    \* approval_actions: committed rows, in insertion order
  role,       \* profiles.role
  now,        \* the store's clock, read by now()
  pc,         \* per client session: where its current call stands
  call,       \* per client session: the current (or last) call and its outcome
  tx,         \* per client session: the writes of its uncommitted transaction
  stamping,   \* whether this specification follows the updated_at column
  view,       \* a mounted ApprovalQueue: its requests, actions and loading state
  fetches,    \* that component's fetchData calls that have not returned yet
  notified,   \* the table contents of which that component has had its events
  form        \* that component's comment and selectedRequestId state

subscriber == <<view, fetches, notified, form>>
vars == <<requests, actions, role, now, pc, call, tx, stamping, view, fetches, notified, form>>

\* ------------------------------------------------------------ transactions
NoWrites == [i \in {} |-> NULL]
\* a transaction: the row versions it wrote (upd), the row it inserted (ins),
\* the row its statement named (row), the rows that were committed when its
\* statement ran (snap) and how often the trigger body recomputed (ran)
NoTx == [upd |-> NoWrites, ins |-> <<>>, row |-> NULL, snap |-> {}, ran |-> 0]
NoCall == [op |-> "none", req |-> NULL, action |-> "none",
           was |-> "none", outcome |-> "none",
     target |-> "none", newRole |-> "none"]

InFlight(u) == pc[u] \in {"inserting", "updating"}
NoTransactionInFlight == \A u \in Users : ~InFlight(u)

\* rows locked by the uncommitted transactions of the other sessions
LockedByOthers(u) == UNION {DOMAIN tx[v].upd : v \in Users \ {u}}

\* ids handed out so far, committed or not
PendingInserts == Cardinality({u \in Users : tx[u].ins # <<>>})

Commit(tbl, t) ==
  LET upd == [i \in DOMAIN tbl |-> IF i \in DOMAIN t.upd THEN t.upd[i] ELSE tbl[i]]
      id  == CHOOSE i \in Ids \ DOMAIN tbl : \A j \in Ids \ DOMAIN tbl : i <= j
  IN  IF t.ins = <<>> THEN upd
      ELSE [i \in DOMAIN tbl \cup {id} |-> IF i = id THEN t.ins[1] ELSE upd[i]]

\* ----------------------------------------------- update_queue_positions()
\* a trigger declared for every UPDATE, whatever columns it sets
TriggerFires_AnyUpdate(tg_op, cols) ==
  tg_op \in {"INSERT", "UPDATE"}

\* CREATE TRIGGER ... BEFORE INSERT OR UPDATE OF status ... FOR EACH ROW:
\* cols are the columns the statement's SET list names
TriggerFires(tg_op, cols) ==
  tg_op = "INSERT" \/ (tg_op = "UPDATE" /\ "status" \in cols)

\* the guard of the trigger body
TriggerCondition(tg_op, old, new) ==
  \/ /\ tg_op = "UPDATE"
     /\ (old.status # new.status \/ old.queue_position # new.queue_position)
     /\ (old.status = "pending" \/ new.status = "pending")
  \/ /\ tg_op = "INSERT"
     /\ new.status = "pending"

\* the ranked_requests CTE without its status = 'pending' condition
RankedRequests_AnyStatus(tbl, tg_op, new_id) ==
  {i \in DOMAIN tbl : tg_op = "INSERT" \/ i # new_id}

\* the rows of the ranked_requests CTE
RankedRequests(tbl, tg_op, new_id) ==
  {i \in DOMAIN tbl : tbl[i].status = "pending" /\ (tg_op = "INSERT" \/ i # new_id)}

\* ROW_NUMBER() OVER (ORDER BY created_at DESC)
RowNumbers_Descending(tbl, S) ==
  {rn \in [S -> 1..Cardinality(S)] :
     /\ \A i, j \in S : i # j => rn[i] # rn[j]
     /\ \A i, j \in S : tbl[i].created_at < tbl[j].created_at => rn[i] > rn[j]}

\* ROW_NUMBER() OVER (ORDER BY created_at): every numbering 1..n of S that
\* respects created_at; rows with equal created_at come in either order
RowNumbers(tbl, S) ==
  {rn \in [S -> 1..Cardinality(S)] :
     /\ \A i, j \in S : i # j => rn[i] # rn[j]
     /\ \A i, j \in S : tbl[i].created_at < tbl[j].created_at => rn[i] < rn[j]}

\* the value of now() for the updated_at column; NULL where the
\* specification does not follow that column
Stamp == IF stamping THEN now ELSE NULL

\* update_updated_at_column(), the BEFORE UPDATE row trigger of the table
update_updated_at_column(new) == [new EXCEPT !.updated_at = Stamp]

\* the UPDATE ... FROM ranked_requests without its IS DISTINCT FROM
\* condition: every ranked row is rewritten
RerankedRows_All(tbl, S, rn) ==
  [i \in S |-> update_updated_at_column([tbl[i] EXCEPT !.queue_position = rn[i]])]

\* the UPDATE ... FROM ranked_requests: the rows it rewrites, with their new versions
RerankedRows(tbl, S, rn) ==
  [i \in {j \in S : tbl[j].queue_position # rn[j]} |->
     update_updated_at_column([tbl[i] EXCEPT !.queue_position = rn[i]])]

\* SELECT COUNT(*) + 1 ... WHERE status = 'pending' AND created_at <= NEW.created_at
NewQueuePosition_Inclusive(tbl, new) ==
  Cardinality({i \in DOMAIN tbl :
                 tbl[i].status = "pending" /\ tbl[i].created_at <= new.created_at}) + 1

\* SELECT COUNT(*) + 1 ... WHERE status = 'pending' AND created_at < NEW.created_at
NewQueuePosition(tbl, new) ==
  Cardinality({i \in DOMAIN tbl :
                 tbl[i].status = "pending" /\ tbl[i].created_at < new.created_at}) + 1

\* the row the trigger returns as NEW
ReturnedRow(tbl, new) ==
  IF new.status = "pending"
  THEN [new EXCEPT !.queue_position = NewQueuePosition(tbl, new)]
  ELSE new

\* the trigger invocations that the function's own UPDATE, which sets
\* queue_position alone, causes on the rows it rewrites
NestedInvocations(others) ==
  Cardinality({i \in DOMAIN others : TriggerFires("UPDATE", {"queue_position"})})

\* the whole trigger function: the other rows it rewrites, the row it
\* returns, and the number of recomputes it ran
update_queue_positions(tbl, tg_op, old, new, new_id, rn) ==
  IF TriggerCondition(tg_op, old, new)
  THEN LET others == RerankedRows(tbl, RankedRequests(tbl, tg_op, new_id), rn)
       IN  [others |-> others,
            new    |-> ReturnedRow(tbl, new),
            ran    |-> 1 + NestedInvocations(others)]
  ELSE [others |-> NoWrites, new |-> new, ran |-> 0]

\* a row trigger that reranks on every write, whatever it changes
RowTrigger_Unconditional(tbl, tg_op, cols, old, new, new_id, rn) ==
  [others |-> RerankedRows(tbl, RankedRequests(tbl, tg_op, new_id), rn),
   new    |-> ReturnedRow(tbl, new),
   ran    |-> 1]

\* the row trigger around the function: it runs only when the trigger fires
RowTrigger(tbl, tg_op, cols, old, new, new_id, rn) ==
  IF TriggerFires(tg_op, cols)
  THEN update_queue_positions(tbl, tg_op, old, new, new_id, rn)
  ELSE [others |-> NoWrites, new |-> new, ran |-> 0]

\* ------------------------------------------------------ row-level security
IsDecider(u) == role[u] \in {"approver", "admin"}

\* "Users can update their own requests" OR "Approvers can update request status"
CanUpdateRequest(u, row) == row.user_id = u \/ IsDecider(u)

\* "Users can create their own requests"
CanInsertRequest(u, row) == row.user_id = u

\* "Approvers can create approval actions" without auth.uid() = approver_id
CanInsertAction_AnyApprover(u, act) == IsDecider(u)

\* "Approvers can create approval actions"
CanInsertAction(u, act) == act.approver_id = u /\ IsDecider(u)

\* comment texts: a text typed into the comment box is represented by the id
\* of the request that was selected while it was typed; the empty text ''
\* and the default text '승인 처리됨' / '반려 처리됨' of a decision
NoComment == NULL

DefaultComment == NULL

\* useState('') for comment, useState(null) for selectedRequestId; sent is
\* the comment a running handleApprovalAction holds in its closure
NoForm == [comment |-> NoComment, selectedRequestId |-> NULL, sent |-> NoComment]

\* ------------------------------------------------------------------- state
\* the columns of the three tables that the model keeps, and the sessions
TypeOK ==
  /\ DOMAIN requests \subseteq Ids
  /\ \A i \in DOMAIN requests :
       /\ requests[i].user_id \in Users
       /\ requests[i].status \in StatusTexts
       /\ requests[i].queue_position \in {NULL} \cup Ids
       /\ requests[i].created_at \in 0..MaxClock
       /\ requests[i].updated_at \in 0..MaxClock
       /\ requests[i].title \in Titles
  /\ Len(actions) <= MaxActions
  /\ \A k \in 1..Len(actions) :
       /\ actions[k].request_id \in Ids
       /\ actions[k].approver_id \in Users
       /\ actions[k].action \in Terminal
       /\ actions[k].comment \in {DefaultComment} \cup Ids
  /\ role \in [Users -> Roles \cup {"none"}]
  /\ now \in 0..MaxClock
  /\ pc \in [Users -> {"idle", "inserting", "update", "updating", "acting"}]
  /\ \A u \in Users :
       /\ call[u].op \in {"none", "submit", "decide", "direct", "role", "log"}
       /\ call[u].target \in Users \cup {"none"}
       /\ call[u].newRole \in Roles \cup {"none"}
       /\ call[u].outcome \in {"none", "inflight", "success", "error", "unauthorized"}
       /\ DOMAIN tx[u].upd \subseteq DOMAIN requests
       /\ Len(tx[u].ins) <= 1
       /\ InFlight(u) \/ tx[u] = NoTx
  /\ stamping \in BOOLEAN
  /\ DOMAIN view.requests \subseteq Ids
  /\ view.loading \in BOOLEAN
  /\ DOMAIN notified.requests \subseteq Ids
  /\ DOMAIN fetches = 1..MaxFetches
  /\ \A k \in 1..MaxFetches : fetches[k].stage \in {"free", "requests", "actions", "set"}
  /\ form.comment \in {NoComment} \cup Ids
  /\ form.sent \in {NoComment} \cup Ids
  /\ form.selectedRequestId \in {NULL} \cup Ids

\* the two tables as one select of each returns them
Contents == [requests |-> requests, actions |-> actions]

\* the page after its first fetchData has returned: both lists, loading false
Shown == [requests |-> requests, actions |-> actions, loading |-> FALSE]

\* a fetchData call: where it stands and what its selects have returned
NoFetch == [stage |-> "free", requests |-> NoWrites, actions |-> <<>>]

\* ------------------------------------------------------------------- Init
Init ==
  /\ requests = [i \in {} |-> NULL]
  /\ actions = <<>>
  /\ role = InitRole
  /\ now = 0
  /\ pc = [u \in Users |-> "idle"]
  /\ call = [u \in Users |-> NoCall]
  /\ tx = [u \in Users |-> NoTx]
  /\ stamping = FALSE
  /\ view = Shown
  /\ fetches = [k \in 1..MaxFetches |-> NoFetch]
  /\ notified = Contents
  /\ form = NoForm

\* the clock advances
Tick ==
  /\ now' = now + 1
  /\ UNCHANGED <<requests, actions, role, pc, call, tx>>

\* ------------------------------------------------------------ statements
\* INSERT INTO approval_requests by principal u: policy check, column
\* defaults, BEFORE INSERT trigger; leaves the transaction uncommitted
InsertStatement(u, vals) ==
  LET new == [user_id |-> vals.user_id, title |-> vals.title, status |-> vals.status,
              queue_position |-> NULL, created_at |-> now, updated_at |-> Stamp]
  IN  /\ CanInsertRequest(u, new)
      /\ \E rn \in RowNumbers(requests, RankedRequests(requests, "INSERT", NULL)) :
           LET t == RowTrigger(requests, "INSERT", {}, new, new, NULL, rn)
           IN  /\ DOMAIN t.others \cap LockedByOthers(u) = {}
               /\ tx' = [tx EXCEPT ![u] = [upd |-> t.others, ins |-> <<t.new>>,
                                           row |-> NULL, snap |-> DOMAIN requests,
                                           ran |-> t.ran]]

\* the insert of handleSubmit; the title field of the form is required, so
\* the handler runs with a title that is not empty
InsertRequestStatement(u, owner) ==
  InsertStatement(u, [user_id |-> owner, title |-> "new", status |-> "pending"])

\* the row an UPDATE's SET list makes of the stored row
Assigned(old, set) == [c \in DOMAIN old |-> IF c \in DOMAIN set THEN set[c] ELSE old[c]]

\* UpdateStatement with a trigger function that runs with the caller's
\* rights (no SECURITY DEFINER): the policies filter the rows the function's
\* own UPDATE may rewrite
UpdateStatement_Invoker(u, r, set) ==
  IF /\ r \in DOMAIN requests
     /\ CanUpdateRequest(u, requests[r])
     /\ CanUpdateRequest(u, Assigned(requests[r], set))
  THEN LET old == requests[r]
           new == update_updated_at_column(Assigned(old, set))
       IN  \E rn \in RowNumbers(requests, RankedRequests(requests, "UPDATE", r)) :
             LET t == RowTrigger(requests, "UPDATE", DOMAIN set, old, new, r, rn)
                 mine == {i \in DOMAIN t.others : CanUpdateRequest(u, requests[i])}
                 w == [i \in mine \cup {r} |->
                         IF i = r THEN t.new ELSE t.others[i]]
             IN  /\ DOMAIN w \cap LockedByOthers(u) = {}
                 /\ tx' = [tx EXCEPT ![u] = [upd |-> w, ins |-> <<>>, row |-> r,
                                             snap |-> DOMAIN requests, ran |-> t.ran]]
  ELSE tx' = [tx EXCEPT ![u] = NoTx]

\* UPDATE approval_requests SET <set> WHERE id = r by principal u; set maps
\* the columns of the SET list to their values.  The policies filter the
\* row (USING) and, having no WITH CHECK of their own, are applied to the
\* new row as well; then the row trigger runs on it if it fires
UpdateStatement(u, r, set) ==
  IF /\ r \in DOMAIN requests
     /\ CanUpdateRequest(u, requests[r])
     /\ CanUpdateRequest(u, Assigned(requests[r], set))
  THEN LET old == requests[r]
           new == update_updated_at_column(Assigned(old, set))
       IN  \E rn \in RowNumbers(requests, RankedRequests(requests, "UPDATE", r)) :
             LET t == RowTrigger(requests, "UPDATE", DOMAIN set, old, new, r, rn)
                 w == [i \in DOMAIN t.others \cup {r} |->
                         IF i = r THEN t.new ELSE t.others[i]]
             IN  /\ DOMAIN w \cap LockedByOthers(u) = {}
                 /\ tx' = [tx EXCEPT ![u] = [upd |-> w, ins |-> <<>>, row |-> r,
                                             snap |-> DOMAIN requests, ran |-> t.ran]]
  ELSE tx' = [tx EXCEPT ![u] = NoTx]

\* UPDATE approval_requests SET status = s WHERE id = r
UpdateStatusStatement(u, r, s) == UpdateStatement(u, r, [status |-> s])

\* ------------------------------------------------------------ handleSubmit
handleSubmit(u) ==
  /\ pc[u] = "idle"
  /\ role[u] \in Roles
  /\ InsertRequestStatement(u, u)
  /\ pc' = [pc EXCEPT ![u] = "inserting"]
  /\ call' = [call EXCEPT ![u] = [op |-> "submit", req |-> NULL, action |-> "none",
                                  was |-> "none", outcome |-> "inflight",
     target |-> "none", newRole |-> "none"]]
  /\ UNCHANGED <<requests, actions, role, now>>

\* the insert commits and returns no error
SubmitCommitted(u) ==
  /\ pc[u] = "inserting"
  /\ requests' = Commit(requests, tx[u])
  /\ tx' = [tx EXCEPT ![u] = NoTx]
  /\ pc' = [pc EXCEPT ![u] = "idle"]
  /\ call' = [call EXCEPT ![u].outcome = "success"]
  /\ UNCHANGED <<actions, role, now>>

\* the insert returns an error (insertError): its transaction is rolled back
SubmitFailed(u) ==
  /\ pc[u] = "inserting"
  /\ tx' = [tx EXCEPT ![u] = NoTx]
  /\ pc' = [pc EXCEPT ![u] = "idle"]
  /\ call' = [call EXCEPT ![u].outcome = "error"]
  /\ UNCHANGED <<requests, actions, role, now>>

\* ---------------------------------------------------- handleApprovalAction
\* handleApprovalAction with the role guard left out
handleApprovalAction_NoGuard(u, requestId, action) ==
  /\ pc[u] = "idle"
  /\ requestId \in DOMAIN requests
  /\ Len(actions) + Cardinality({v \in Users : pc[v] \in {"update", "updating", "acting"}})
       < MaxActions
  /\ call' = [call EXCEPT ![u] = [op |-> "decide", req |-> requestId,
                                  action |-> action,
                                  was |-> requests[requestId].status,
                                  outcome |-> "inflight",
                                  target |-> "none", newRole |-> "none"]]
  /\ pc' = [pc EXCEPT ![u] = "update"]
  /\ UNCHANGED <<requests, actions, role, now, tx>>

\* the role guard; requestId is a row of the caller's list
handleApprovalAction(u, requestId, action) ==
  /\ pc[u] = "idle"
  /\ requestId \in DOMAIN requests
  /\ Len(actions) + Cardinality({v \in Users : pc[v] \in {"update", "updating", "acting"}})
       < MaxActions
  /\ IF ~IsDecider(u)
     THEN /\ call' = [call EXCEPT ![u] = [NoCall EXCEPT !.op = "decide",
                                                          !.outcome = "unauthorized"]]
          /\ UNCHANGED pc
     ELSE /\ call' = [call EXCEPT ![u] = [op |-> "decide", req |-> requestId,
                                          action |-> action,
                                          was |-> requests[requestId].status,
                                          outcome |-> "inflight",
                                  target |-> "none", newRole |-> "none"]]
          /\ pc' = [pc EXCEPT ![u] = "update"]
  /\ UNCHANGED <<requests, actions, role, now, tx>>

\* supabase.from('approval_requests').update({ status: action }).eq('id', requestId)
UpdateStatus(u) ==
  /\ pc[u] = "update"
  /\ UpdateStatusStatement(u, call[u].req, call[u].action)
  /\ pc' = [pc EXCEPT ![u] = "updating"]
  /\ UNCHANGED <<requests, actions, role, now, call>>

\* the update commits and returns no error
UpdateCommitted(u) ==
  /\ pc[u] = "updating"
  /\ call[u].op = "decide"
  /\ requests' = Commit(requests, tx[u])
  /\ tx' = [tx EXCEPT ![u] = NoTx]
  /\ pc' = [pc EXCEPT ![u] = "acting"]
  /\ UNCHANGED <<actions, role, now, call>>

\* the rows a transaction rewrote other than the row its statement named
OtherRows(t) == [i \in DOMAIN t.upd \ {t.row} |-> t.upd[i]]

\* UpdateFailed with the trigger's rewrites of the other rows outliving the
\* failed statement
UpdateFailed_RewritesKept(u) ==
  /\ pc[u] = "updating"
  /\ call[u].op = "decide"
  /\ requests' = Commit(requests, [NoTx EXCEPT !.upd = OtherRows(tx[u])])
  /\ tx' = [tx EXCEPT ![u] = NoTx]
  /\ pc' = [pc EXCEPT ![u] = "idle"]
  /\ call' = [call EXCEPT ![u].outcome = "error"]
  /\ UNCHANGED <<actions, role, now>>

\* UpdateFailed in a handler that does not throw updateError and goes on to
\* insert the action
UpdateFailed_ActionLogged(u) ==
  /\ pc[u] = "updating"
  /\ call[u].op = "decide"
  /\ tx' = [tx EXCEPT ![u] = NoTx]
  /\ pc' = [pc EXCEPT ![u] = "idle"]
  /\ call' = [call EXCEPT ![u].outcome = "error"]
  /\ actions' = Append(actions, [request_id |-> call[u].req, approver_id |-> u,
                                 action |-> call[u].action,
                                 comment |-> DefaultComment])
  /\ UNCHANGED <<requests, role, now>>

\* the update returns an error (throw updateError): its transaction, the
\* trigger's writes included, is rolled back; the catch block shows a toast
UpdateFailed(u) ==
  /\ pc[u] = "updating"
  /\ call[u].op = "decide"
  /\ tx' = [tx EXCEPT ![u] = NoTx]
  /\ pc' = [pc EXCEPT ![u] = "idle"]
  /\ call' = [call EXCEPT ![u].outcome = "error"]
  /\ UNCHANGED <<requests, actions, role, now>>

\* supabase.from('approval_actions').insert({...}), then the success toast
InsertAction(u) ==
  /\ pc[u] = "acting"
  /\ LET act == [request_id |-> call[u].req, approver_id |-> u,
                 action |-> call[u].action, comment |-> DefaultComment]
     IN  IF CanInsertAction(u, act) /\ act.request_id \in DOMAIN requests
         THEN /\ actions' = Append(actions, act)
              /\ call' = [call EXCEPT ![u].outcome = "success"]
         ELSE /\ actions' = actions
              /\ call' = [call EXCEPT ![u].outcome = "error"]
  /\ pc' = [pc EXCEPT ![u] = "idle"]
  /\ UNCHANGED <<requests, role, now, tx>>

\* ------------------------------------------------ direct access to the store
\* any signed-in client sends the same UPDATE ... SET status to the REST
\* endpoint of approval_requests itself; only the policies stand in its way
DirectUpdateStatus(u, r, s) ==
  /\ pc[u] = "idle"
  /\ r \in DOMAIN requests
  /\ UpdateStatusStatement(u, r, s)
  /\ pc' = [pc EXCEPT ![u] = "updating"]
  /\ call' = [call EXCEPT ![u] = [NoCall EXCEPT !.op = "direct", !.outcome = "inflight"]]
  /\ UNCHANGED <<requests, actions, role, now>>

DirectCommitted(u) ==
  /\ pc[u] = "updating"
  /\ call[u].op = "direct"
  /\ requests' = Commit(requests, tx[u])
  /\ tx' = [tx EXCEPT ![u] = NoTx]
  /\ pc' = [pc EXCEPT ![u] = "idle"]
  /\ call' = [call EXCEPT ![u].outcome = "success"]
  /\ UNCHANGED <<actions, role, now>>

\* the SET lists a client sends: the title alone, the status alone, or the
\* status together with a queue position
SetLists ==
  {[title |-> "edited"]}
    \cup {[status |-> s] : s \in Statuses}
    \cup {[status |-> s, queue_position |-> MaxRequests] : s \in Statuses}

\* UPDATE approval_requests SET <set> WHERE id = r sent to the REST endpoint
DirectUpdate(u, r, set) ==
  /\ pc[u] = "idle"
  /\ r \in DOMAIN requests
  /\ UpdateStatement(u, r, set)
  /\ pc' = [pc EXCEPT ![u] = "updating"]
  /\ call' = [call EXCEPT ![u] = [NoCall EXCEPT !.op = "direct", !.outcome = "inflight"]]
  /\ UNCHANGED <<requests, actions, role, now>>

\* UPDATE approval_requests SET user_id = owner WHERE id = r sent to the REST
\* endpoint; a new row that no update policy admits is refused with an error
DirectUpdateOwner(u, r, owner) ==
  /\ pc[u] = "idle"
  /\ r \in DOMAIN requests
  /\ role[u] \in Roles
  /\ IF CanUpdateRequest(u, requests[r]) => CanUpdateRequest(u, Assigned(requests[r], [user_id |-> owner]))
     THEN /\ UpdateStatement(u, r, [user_id |-> owner])
          /\ pc' = [pc EXCEPT ![u] = "updating"]
          /\ call' = [call EXCEPT ![u] = [NoCall EXCEPT !.op = "direct",
                                                          !.outcome = "inflight"]]
     ELSE /\ call' = [call EXCEPT ![u] = [NoCall EXCEPT !.op = "direct",
                                                          !.outcome = "error"]]
          /\ UNCHANGED <<pc, tx>>
  /\ UNCHANGED <<requests, actions, role, now>>

\* the rows a client sends in an INSERT: any owner, title and status text
InsertLists == [user_id : {"emp", "apr"}, title : {"", "new"}, status : StatusTexts]

\* INSERT INTO approval_requests sent to the REST endpoint; a row that fails
\* the policy's WITH CHECK is refused with an error
DirectInsert(u, vals) ==
  /\ pc[u] = "idle"
  /\ IF CanInsertRequest(u, vals)
     THEN /\ InsertStatement(u, vals)
          /\ pc' = [pc EXCEPT ![u] = "inserting"]
          /\ call' = [call EXCEPT ![u] = [NoCall EXCEPT !.op = "direct",
                                                          !.outcome = "inflight"]]
     ELSE /\ call' = [call EXCEPT ![u] = [NoCall EXCEPT !.op = "direct",
                                                          !.outcome = "error"]]
          /\ UNCHANGED <<pc, tx>>
  /\ UNCHANGED <<requests, actions, role, now>>

\* ------------------------------------------------------------ role changes
\* "Users can update their own profile": USING (auth.uid() = id)
CanUpdateProfile(u, userId) == u = userId

\* UPDATE profiles SET role = newRole WHERE id = userId by principal u: the
\* policy filters the row; a statement that updates no row reports no error
UpdateRoleStatement(u, userId, newRole) ==
  role' = IF role[userId] \in Roles /\ CanUpdateProfile(u, userId)
          THEN [role EXCEPT ![userId] = newRole]
          ELSE role

\* updateUserRole of the admin page, which renders for an admin only: the
\* update returns no error and the success toast is shown
updateUserRole(u, userId, newRole) ==
  /\ pc[u] = "idle"
  /\ role[u] = "admin"
  /\ UpdateRoleStatement(u, userId, newRole)
  /\ call' = [call EXCEPT ![u] = [NoCall EXCEPT !.op = "role", !.target = userId,
                                                  !.newRole = newRole,
                                                  !.outcome = "success"]]
  /\ UNCHANGED <<requests, actions, now, pc, tx>>

\* updateUserRole when the update returns an error: the failure toast
updateUserRoleFailed(u, userId, newRole) ==
  /\ pc[u] = "idle"
  /\ role[u] = "admin"
  /\ call' = [call EXCEPT ![u] = [NoCall EXCEPT !.op = "role", !.target = userId,
                                                  !.newRole = newRole,
                                                  !.outcome = "error"]]
  /\ UNCHANGED <<requests, actions, role, now, pc, tx>>

\* the same UPDATE of profiles sent to the REST endpoint by any client
DirectUpdateRole(u, userId, newRole) ==
  /\ pc[u] = "idle"
  /\ role[u] \in Roles
  /\ UpdateRoleStatement(u, userId, newRole)
  /\ call' = [call EXCEPT ![u] = [NoCall EXCEPT !.op = "direct", !.target = userId,
                                                  !.newRole = newRole,
                                                  !.outcome = "success"]]
  /\ UNCHANGED <<requests, actions, now, pc, tx>>

\* the rows a client sends in an INSERT into approval_actions
ActionRows ==
  [request_id : 1..MaxRequests, approver_id : {"emp", "apr"}, action : Terminal,
   comment : {DefaultComment}]

\* INSERT INTO approval_actions sent to the REST endpoint; a row that fails
\* the policy's WITH CHECK or a foreign key is refused with an error
DirectInsertAction(u, act) ==
  /\ pc[u] = "idle"
  /\ role[u] \in Roles
  /\ IF /\ CanInsertAction(u, act)
        /\ act.request_id \in DOMAIN requests
        /\ role[act.approver_id] \in Roles
     THEN /\ actions' = Append(actions, act)
          /\ call' = [call EXCEPT ![u] = [NoCall EXCEPT !.op = "log", !.req = act.request_id,
                                                          !.action = act.action,
                                                          !.target = act.approver_id,
                                                          !.outcome = "success"]]
     ELSE /\ actions' = actions
          /\ call' = [call EXCEPT ![u] = [NoCall EXCEPT !.op = "log", !.req = act.request_id,
                                                          !.action = act.action,
                                                          !.target = act.approver_id,
                                                          !.outcome = "error"]]
  /\ UNCHANGED <<requests, role, now, pc, tx>>

\* ------------------------------------------------------- account deletion
\* auth.users row u is deleted: ON DELETE CASCADE removes u's profile, u's
\* requests, and the actions on those requests or by u.  The trigger is
\* declared for INSERT and UPDATE OF status only, so nothing else is written
DeleteUser(u) ==
  /\ \A v \in Users : pc[v] = "idle"
  /\ role[u] \in Roles
  /\ LET rest == {i \in DOMAIN requests : requests[i].user_id # u}
     IN  /\ requests' = [i \in rest |-> requests[i]]
         /\ actions' = SelectSeq(actions, LAMBDA a : a.approver_id # u
                                                     /\ a.request_id \in rest)
  /\ role' = [role EXCEPT ![u] = "none"]
  /\ call' = [call EXCEPT ![u] = NoCall]
  /\ UNCHANGED <<now, pc, tx>>

\* --------------------------------------------------------- specifications
\* fewer than max requests exist or are being inserted
RoomForRequest(max) == Cardinality(DOMAIN requests) + PendingInserts < max

\* Spec: two approvers' sessions use the application concurrently
Approvers == {"apr", "adm"}

Next ==
  \/ now < MaxTime /\ Tick /\ UNCHANGED <<stamping, subscriber>>
  \/ \E u \in Approvers : RoomForRequest(MaxRequests) /\ handleSubmit(u) /\ UNCHANGED <<stamping, subscriber>>
  \/ \E u \in Approvers : SubmitCommitted(u) /\ UNCHANGED <<stamping, subscriber>>
  \/ \E u \in Approvers, r \in Ids, a \in Terminal : handleApprovalAction(u, r, a) /\ UNCHANGED <<stamping, subscriber>>
  \/ \E u \in Approvers : UpdateStatus(u) /\ UNCHANGED <<stamping, subscriber>>
  \/ \E u \in Approvers : UpdateCommitted(u) /\ UNCHANGED <<stamping, subscriber>>
  \/ \E u \in Approvers : InsertAction(u) /\ UNCHANGED <<stamping, subscriber>>

Spec == Init /\ [][Next]_vars

\* SpecGuard: an employee and an approver use the application
Mixed == {"emp", "apr"}

NextGuard ==
  \/ now < MaxTime /\ Tick /\ UNCHANGED <<stamping, subscriber>>
  \/ \E u \in Mixed : RoomForRequest(MaxRequests) /\ handleSubmit(u) /\ UNCHANGED <<stamping, subscriber>>
  \/ \E u \in Mixed : SubmitCommitted(u) /\ UNCHANGED <<stamping, subscriber>>
  \/ \E u \in Mixed, r \in Ids, a \in Terminal : handleApprovalAction(u, r, a) /\ UNCHANGED <<stamping, subscriber>>
  \/ \E u \in Mixed : UpdateStatus(u) /\ UNCHANGED <<stamping, subscriber>>
  \/ \E u \in Mixed : UpdateCommitted(u) /\ UNCHANGED <<stamping, subscriber>>
  \/ \E u \in Mixed : InsertAction(u) /\ UNCHANGED <<stamping, subscriber>>

SpecGuard == Init /\ [][NextGuard]_vars

\* SpecDirect: as SpecGuard, and the employee also writes to the request
\* table directly
Employees == {"emp"}

NextDirect ==
  \/ now < MaxTime /\ Tick /\ UNCHANGED <<stamping, subscriber>>
  \/ \E u \in Mixed : RoomForRequest(MaxRequests) /\ handleSubmit(u) /\ UNCHANGED <<stamping, subscriber>>
  \/ \E u \in Mixed : SubmitCommitted(u) /\ UNCHANGED <<stamping, subscriber>>
  \/ \E u \in Mixed, r \in Ids, a \in Terminal : handleApprovalAction(u, r, a) /\ UNCHANGED <<stamping, subscriber>>
  \/ \E u \in Mixed : UpdateStatus(u) /\ UNCHANGED <<stamping, subscriber>>
  \/ \E u \in Mixed : UpdateCommitted(u) /\ UNCHANGED <<stamping, subscriber>>
  \/ \E u \in Mixed : InsertAction(u) /\ UNCHANGED <<stamping, subscriber>>
  \/ \E u \in Employees, r \in Ids, s \in Statuses : DirectUpdateStatus(u, r, s) /\ UNCHANGED <<stamping, subscriber>>
  \/ \E u \in Employees : DirectCommitted(u) /\ UNCHANGED <<stamping, subscriber>>

SpecDirect == Init /\ [][NextDirect]_vars

\* SpecSerial: one approver's session works alone, so no two transactions
\* overlap; a statement may fail
Single == {"apr"}

NextSerial ==
  \/ now < MaxQueue - 1 /\ Tick /\ UNCHANGED <<stamping, subscriber>>
  \/ \E u \in Single : RoomForRequest(MaxQueue) /\ handleSubmit(u) /\ UNCHANGED <<stamping, subscriber>>
  \/ \E u \in Single : SubmitCommitted(u) /\ UNCHANGED <<stamping, subscriber>>
  \/ \E u \in Single : SubmitFailed(u) /\ UNCHANGED <<stamping, subscriber>>
  \/ \E u \in Single, r \in Ids, a \in Terminal : handleApprovalAction(u, r, a) /\ UNCHANGED <<stamping, subscriber>>
  \/ \E u \in Single : UpdateStatus(u) /\ UNCHANGED <<stamping, subscriber>>
  \/ \E u \in Single : UpdateCommitted(u) /\ UNCHANGED <<stamping, subscriber>>
  \/ \E u \in Single : UpdateFailed(u) /\ UNCHANGED <<stamping, subscriber>>
  \/ \E u \in Single : InsertAction(u) /\ UNCHANGED <<stamping, subscriber>>

SpecSerial == Init /\ [][NextSerial]_vars

\* SpecWrites: the employee's session works alone and also sends updates of
\* its own requests to the request table directly
NextWrites ==
  \/ now < MaxTime /\ Tick /\ UNCHANGED <<stamping, subscriber>>
  \/ \E u \in Employees : RoomForRequest(MaxRequests) /\ handleSubmit(u) /\ UNCHANGED <<stamping, subscriber>>
  \/ \E u \in Employees : SubmitCommitted(u) /\ UNCHANGED <<stamping, subscriber>>
  \/ \E u \in Employees, r \in Ids, set \in SetLists : DirectUpdate(u, r, set) /\ UNCHANGED <<stamping, subscriber>>
  \/ \E u \in Employees : DirectCommitted(u) /\ UNCHANGED <<stamping, subscriber>>

SpecWrites == Init /\ [][NextWrites]_vars

\* loadAdminData: the request statistics computed from one select of the table
stats(tbl) ==
  [totalRequests    |-> Cardinality(DOMAIN tbl),
   pendingRequests  |-> Cardinality({i \in DOMAIN tbl : tbl[i].status = "pending"}),
   approvedRequests |-> Cardinality({i \in DOMAIN tbl : tbl[i].status = "approved"}),
   rejectedRequests |-> Cardinality({i \in DOMAIN tbl : tbl[i].status = "rejected"})]

\* SpecRest: the employee's session works alone, through the form and by
\* inserts sent to the request table directly
NextRest ==
  \/ now < MaxTime /\ Tick /\ UNCHANGED <<stamping, subscriber>>
  \/ \E u \in Employees : RoomForRequest(MaxRequests) /\ handleSubmit(u) /\ UNCHANGED <<stamping, subscriber>>
  \/ \E u \in Employees, vals \in InsertLists : RoomForRequest(MaxRequests) /\ DirectInsert(u, vals) /\ UNCHANGED <<stamping, subscriber>>
  \/ \E u \in Employees : SubmitCommitted(u) /\ UNCHANGED <<stamping, subscriber>>

SpecRest == Init /\ [][NextRest]_vars

\* SpecRoles: an admin uses the admin page while an employee sends role
\* updates to the profile table directly
Admins == {"adm"}

NextRoles ==
  \/ \E u \in Admins, t \in Users, r \in Roles : updateUserRole(u, t, r) /\ UNCHANGED <<stamping, subscriber>>
  \/ \E u \in Admins, t \in Users, r \in Roles : updateUserRoleFailed(u, t, r) /\ UNCHANGED <<stamping, subscriber>>
  \/ \E u \in Employees, t \in Users, r \in Roles : DirectUpdateRole(u, t, r) /\ UNCHANGED <<stamping, subscriber>>

SpecRoles == Init /\ [][NextRoles]_vars

\* SpecPurge: as SpecGuard, and the account of either user may be deleted
NextPurge ==
  \/ now < MaxTime /\ Tick /\ UNCHANGED <<stamping, subscriber>>
  \/ \E u \in Mixed : RoomForRequest(MaxRequests) /\ handleSubmit(u) /\ UNCHANGED <<stamping, subscriber>>
  \/ \E u \in Mixed : SubmitCommitted(u) /\ UNCHANGED <<stamping, subscriber>>
  \/ \E u \in Mixed, r \in Ids, a \in Terminal : handleApprovalAction(u, r, a) /\ UNCHANGED <<stamping, subscriber>>
  \/ \E u \in Mixed : UpdateStatus(u) /\ UNCHANGED <<stamping, subscriber>>
  \/ \E u \in Mixed : UpdateCommitted(u) /\ UNCHANGED <<stamping, subscriber>>
  \/ \E u \in Mixed : InsertAction(u) /\ UNCHANGED <<stamping, subscriber>>
  \/ \E u \in Mixed : DeleteUser(u) /\ UNCHANGED <<stamping, subscriber>>

SpecPurge == Init /\ [][NextPurge]_vars

\* fewer than MaxActions actions are stored or about to be inserted
RoomForAction ==
  Len(actions) + Cardinality({v \in Users : pc[v] \in {"update", "updating", "acting"}})
    < MaxActions

\* SpecDefiner: an employee and an approver submit requests and the employee
\* sets the status of its own requests directly
NextDefiner ==
  \/ now < MaxTime /\ Tick /\ UNCHANGED <<stamping, subscriber>>
  \/ \E u \in Mixed : RoomForRequest(MaxRequests) /\ handleSubmit(u) /\ UNCHANGED <<stamping, subscriber>>
  \/ \E u \in Mixed : SubmitCommitted(u) /\ UNCHANGED <<stamping, subscriber>>
  \/ \E u \in Employees, r \in Ids, s \in Statuses : DirectUpdateStatus(u, r, s) /\ UNCHANGED <<stamping, subscriber>>
  \/ \E u \in Employees : DirectCommitted(u) /\ UNCHANGED <<stamping, subscriber>>

SpecDefiner == Init /\ [][NextDefiner]_vars

\* SpecOwner: an employee and an approver submit requests, send inserts
\* naming either of them as the owner, and send updates of user_id
Owners == {"emp", "apr"}

OwnerLists == [user_id : Owners, title : {"new"}, status : {"pending"}]

NextOwner ==
  \/ \E u \in Mixed : RoomForRequest(MaxRequests) /\ handleSubmit(u) /\ UNCHANGED <<stamping, subscriber>>
  \/ \E u \in Mixed, vals \in OwnerLists : RoomForRequest(MaxRequests) /\ DirectInsert(u, vals) /\ UNCHANGED <<stamping, subscriber>>
  \/ \E u \in Mixed : SubmitCommitted(u) /\ UNCHANGED <<stamping, subscriber>>
  \/ \E u \in Mixed, r \in Ids, v \in Owners : DirectUpdateOwner(u, r, v) /\ UNCHANGED <<stamping, subscriber>>
  \/ \E u \in Mixed : DirectCommitted(u) /\ UNCHANGED <<stamping, subscriber>>

SpecOwner == Init /\ [][NextOwner]_vars

\* SpecLog: an employee submits requests, the employee and an approver send
\* inserts to the action log directly, and the employee updates its own
\* profile's role
NextLog ==
  \/ \E u \in Employees : RoomForRequest(MaxRequests) /\ handleSubmit(u) /\ UNCHANGED <<stamping, subscriber>>
  \/ \E u \in Employees : SubmitCommitted(u) /\ UNCHANGED <<stamping, subscriber>>
  \/ \E u \in Mixed, act \in ActionRows : RoomForAction /\ DirectInsertAction(u, act) /\ UNCHANGED <<stamping, subscriber>>
  \/ \E u \in Employees, r \in Roles : DirectUpdateRole(u, u, r) /\ UNCHANGED <<stamping, subscriber>>

SpecLog == Init /\ [][NextLog]_vars

\* SpecStamp: one approver's session works alone and the updated_at column
\* is followed
InitStamp ==
  /\ requests = [i \in {} |-> NULL]
  /\ actions = <<>>
  /\ role = InitRole
  /\ now = 0
  /\ pc = [u \in Users |-> "idle"]
  /\ call = [u \in Users |-> NoCall]
  /\ tx = [u \in Users |-> NoTx]
  /\ stamping = TRUE
  /\ view = Shown
  /\ fetches = [k \in 1..MaxFetches |-> NoFetch]
  /\ notified = Contents
  /\ form = NoForm

NextStamp ==
  \/ now < MaxTime /\ Tick /\ UNCHANGED <<stamping, subscriber>>
  \/ \E u \in Single : RoomForRequest(MaxRequests) /\ handleSubmit(u) /\ UNCHANGED <<stamping, subscriber>>
  \/ \E u \in Single : SubmitCommitted(u) /\ UNCHANGED <<stamping, subscriber>>
  \/ \E u \in Single, r \in Ids, a \in Terminal : handleApprovalAction(u, r, a) /\ UNCHANGED <<stamping, subscriber>>
  \/ \E u \in Single : UpdateStatus(u) /\ UNCHANGED <<stamping, subscriber>>
  \/ \E u \in Single : UpdateCommitted(u) /\ UNCHANGED <<stamping, subscriber>>
  \/ \E u \in Single : InsertAction(u) /\ UNCHANGED <<stamping, subscriber>>

SpecStamp == InitStamp /\ [][NextStamp]_vars

\* ------------------------------------------------- the mounted queue page
store == <<requests, actions, role, now, pc, call, tx>>

\* the calls of fetchData the page has room for
FreeSlots == {k \in 1..MaxFetches : fetches[k].stage = "free"}

\* fetchData() is called: setLoading(true), and its first select has not
\* been answered yet
fetchData ==
  /\ FreeSlots # {}
  /\ view' = [view EXCEPT !.loading = TRUE]
  /\ LET k == CHOOSE j \in FreeSlots : \A i \in FreeSlots : j <= i
     IN  fetches' = [fetches EXCEPT ![k] = [NoFetch EXCEPT !.stage = "requests"]]

\* the realtime channel delivers the change events of what was committed
\* since its last delivery; the callback calls fetchData()
ChangeEvent ==
  /\ notified # Contents
  /\ notified' = Contents
  /\ fetchData
  /\ UNCHANGED <<store, stamping, form>>

\* what a handler of user u does after its last write: onSuccess() of the
\* form and the end of handleApprovalAction's try block call fetchData(),
\* the error paths do not
handleRequestSuccess(u) ==
  IF call'[u].outcome = "success"
  THEN fetchData /\ UNCHANGED <<notified, form>>
  ELSE UNCHANGED subscriber

\* the select of approval_requests is answered
FetchRequests(k) ==
  /\ fetches[k].stage = "requests"
  /\ fetches' = [fetches EXCEPT ![k].requests = requests, ![k].stage = "actions"]
  /\ UNCHANGED <<store, stamping, view, notified, form>>

\* the select of approval_actions is answered
FetchActions(k) ==
  /\ fetches[k].stage = "actions"
  /\ fetches' = [fetches EXCEPT ![k].actions = actions, ![k].stage = "set"]
  /\ UNCHANGED <<store, stamping, view, notified, form>>

\* the select of approval_requests returns requestsError: return, and the
\* finally block runs setLoading(false)
FetchRequestsFailed(k) ==
  /\ fetches[k].stage = "requests"
  /\ view' = [view EXCEPT !.loading = FALSE]
  /\ fetches' = [fetches EXCEPT ![k] = NoFetch]
  /\ UNCHANGED <<store, stamping, notified, form>>

\* FetchActionsFailed in a fetchData that calls setRequests before its
\* second select
FetchActionsFailed_RequestsShown(k) ==
  /\ fetches[k].stage = "actions"
  /\ view' = [view EXCEPT !.requests = fetches[k].requests, !.loading = FALSE]
  /\ fetches' = [fetches EXCEPT ![k] = NoFetch]
  /\ UNCHANGED <<store, stamping, notified, form>>

\* the select of approval_actions returns actionsError: return, and the
\* finally block runs setLoading(false)
FetchActionsFailed(k) ==
  /\ fetches[k].stage = "actions"
  /\ view' = [view EXCEPT !.loading = FALSE]
  /\ fetches' = [fetches EXCEPT ![k] = NoFetch]
  /\ UNCHANGED <<store, stamping, notified, form>>

\* setRequests(requestsWithProfiles); setActions(actionsWithProfiles), and
\* the finally block runs setLoading(false)
SetRequests(k) ==
  /\ fetches[k].stage = "set"
  /\ view' = [requests |-> fetches[k].requests, actions |-> fetches[k].actions,
              loading |-> FALSE]
  /\ fetches' = [fetches EXCEPT ![k] = NoFetch]
  /\ UNCHANGED <<store, stamping, notified, form>>

\* the requests for which the page shows the decision buttons
ShownPending == {r \in DOMAIN view.requests : view.requests[r].status = "pending"}

\* the button under a listed pending request: setSelectedRequestId(request.id)
setSelectedRequestId(u, r) ==
  /\ IsDecider(u)
  /\ r \in ShownPending
  /\ form.selectedRequestId # r
  /\ form' = [form EXCEPT !.selectedRequestId = r]
  /\ UNCHANGED <<store, stamping, view, fetches, notified>>

\* typing into the comment box, which is shown under the selected request
setComment(u) ==
  /\ IsDecider(u)
  /\ form.selectedRequestId \in DOMAIN view.requests
  /\ form.comment # form.selectedRequestId
  /\ form' = [form EXCEPT !.comment = form.selectedRequestId]
  /\ UNCHANGED <<store, stamping, view, fetches, notified>>

\* a click on a decision button of request r: the handler runs with the
\* comment of the render it was created in
ClickDecision(u, r, a) ==
  /\ r \in ShownPending
  /\ handleApprovalAction(u, r, a)
  /\ form' = [form EXCEPT !.sent = form.comment]
  /\ UNCHANGED <<stamping, view, fetches, notified>>

\* the insert of the handler that sends comment || default text, and what
\* follows it: setComment(''), setSelectedRequestId(null), setRefreshTrigger
InsertCommentedAction(u) ==
  /\ pc[u] = "acting"
  /\ LET act == [request_id |-> call[u].req, approver_id |-> u,
                 action |-> call[u].action,
                 comment |-> IF form.sent # NoComment THEN form.sent ELSE DefaultComment]
     IN  IF CanInsertAction(u, act) /\ act.request_id \in DOMAIN requests
         THEN /\ actions' = Append(actions, act)
              /\ call' = [call EXCEPT ![u].outcome = "success"]
              /\ fetchData
              /\ form' = NoForm
              /\ UNCHANGED notified
         ELSE /\ actions' = actions
              /\ call' = [call EXCEPT ![u].outcome = "error"]
              /\ UNCHANGED subscriber
  /\ pc' = [pc EXCEPT ![u] = "idle"]
  /\ UNCHANGED <<requests, role, now, tx, stamping>>

\* SpecComment: an approver submits, selects requests, types comments and
\* decides on the queue page that has the comment box; the page refetches
\* after its own submits and decisions
NextComment ==
  \/ \E u \in Single : RoomForRequest(MaxRequests) /\ handleSubmit(u) /\ UNCHANGED <<stamping, subscriber>>
  \/ \E u \in Single : SubmitCommitted(u) /\ handleRequestSuccess(u) /\ UNCHANGED stamping
  \/ \E u \in Single, r \in Ids : setSelectedRequestId(u, r)
  \/ \E u \in Single : setComment(u)
  \/ \E u \in Single, r \in Ids, a \in Terminal : ClickDecision(u, r, a)
  \/ \E u \in Single : UpdateStatus(u) /\ UNCHANGED <<stamping, subscriber>>
  \/ \E u \in Single : UpdateCommitted(u) /\ UNCHANGED <<stamping, subscriber>>
  \/ \E u \in Single : InsertCommentedAction(u)
  \/ \E k \in 1..MaxFetches : FetchRequests(k)
  \/ \E k \in 1..MaxFetches : FetchActions(k)
  \/ \E k \in 1..MaxFetches : SetRequests(k)

SpecComment == Init /\ [][NextComment]_vars

\* SpecFetch: an approver submits requests and records actions while the
\* queue page is mounted; the page refetches after each submit, and its
\* queries may return errors
NextFetch ==
  \/ \E u \in Single : RoomForRequest(MaxRequests) /\ handleSubmit(u) /\ UNCHANGED <<stamping, subscriber>>
  \/ \E u \in Single : SubmitCommitted(u) /\ handleRequestSuccess(u) /\ UNCHANGED stamping
  \/ \E u \in Single, r \in Ids :
       /\ RoomForAction
       /\ DirectInsertAction(u, [request_id |-> r, approver_id |-> u, action |-> "approved",
                                 comment |-> DefaultComment])
       /\ UNCHANGED <<stamping, subscriber>>
  \/ \E k \in 1..MaxFetches : FetchRequests(k)
  \/ \E k \in 1..MaxFetches : FetchRequestsFailed(k)
  \/ \E k \in 1..MaxFetches : FetchActions(k)
  \/ \E k \in 1..MaxFetches : FetchActionsFailed(k)
  \/ \E k \in 1..MaxFetches : SetRequests(k)

SpecFetch == Init /\ [][NextFetch]_vars

\* SpecView: an approver submits and decides while the queue page is mounted
NextView ==
  \/ \E u \in Single : RoomForRequest(MaxRequests) /\ handleSubmit(u) /\ UNCHANGED <<stamping, subscriber>>
  \/ \E u \in Single : SubmitCommitted(u) /\ handleRequestSuccess(u) /\ UNCHANGED stamping
  \/ \E u \in Single, r \in Ids, a \in Terminal : handleApprovalAction(u, r, a) /\ UNCHANGED <<stamping, subscriber>>
  \/ \E u \in Single : UpdateStatus(u) /\ UNCHANGED <<stamping, subscriber>>
  \/ \E u \in Single : UpdateCommitted(u) /\ UNCHANGED <<stamping, subscriber>>
  \/ \E u \in Single : InsertAction(u) /\ handleRequestSuccess(u) /\ UNCHANGED stamping
  \/ ChangeEvent
  \/ \E k \in 1..MaxFetches : FetchRequests(k)
  \/ \E k \in 1..MaxFetches : FetchActions(k)
  \/ \E k \in 1..MaxFetches : SetRequests(k)

SpecView == Init /\ [][NextView]_vars

\* ------------------------------------------------------------- properties
PendingIds == {i \in DOMAIN requests : requests[i].status = "pending"}
ActionsFor(r) == {k \in 1..Len(actions) : actions[k].request_id = r}

\* session u takes a step of its own
Steps(u) == pc'[u] # pc[u] \/ call'[u] # call[u]

\* session u enters handleApprovalAction in this step
DecideInvoked(u) == pc[u] = "idle" /\ Steps(u) /\ call'[u].op = "decide"

NoDecideInFlight ==
  \A u \in Users : call[u].op = "decide" => pc[u] = "idle"

\* C1: with no transaction in flight, the queue positions of the pending
\* requests are exactly 1..n, n the number of pending requests, no duplicates
C1_Density ==
  NoTransactionInFlight =>
    /\ {requests[i].queue_position : i \in PendingIds} = 1..Cardinality(PendingIds)
    /\ \A i, j \in PendingIds :
         i # j => requests[i].queue_position # requests[j].queue_position

\* C2: with no transaction in flight, a pending request created strictly
\* earlier than another pending request holds the smaller queue position
C2_Ordering ==
  NoTransactionInFlight =>
    \A a, b \in PendingIds :
      requests[a].created_at < requests[b].created_at
        => requests[a].queue_position < requests[b].queue_position

\* C3: after every committed operation a request has a queue position
\* exactly when it is pending
C3_PositionIffPending ==
  NoTransactionInFlight =>
    \A i \in DOMAIN requests :
      (requests[i].queue_position # NULL) <=> (requests[i].status = "pending")

\* C4: approved and rejected are absorbing: no step changes the status of a
\* request that is approved or rejected
C4_TerminalAbsorbing ==
  [][\A i \in DOMAIN requests :
       requests[i].status \in Terminal => requests'[i].status = requests[i].status]_vars

\* C5: handleApprovalAction entered by a principal that is neither approver
\* nor admin returns the authorization failure at once and leaves the
\* requests, their positions, the action log and every transaction untouched
C5_GuardDenies ==
  [][\A u \in Users :
       (DecideInvoked(u) /\ ~IsDecider(u)) =>
         /\ call'[u].outcome = "unauthorized"
         /\ pc'[u] = "idle"
         /\ requests' = requests
         /\ actions' = actions
         /\ tx' = tx]_vars

\* C5 witness: an employee's decide was denied, and every request there is,
\* the one it named among them, is still pending with its position
C5_Witness ==
  \E u \in Users :
    /\ ~IsDecider(u)
    /\ call[u].op = "decide"
    /\ call[u].outcome = "unauthorized"
    /\ DOMAIN requests # {}
    /\ \A i \in DOMAIN requests :
         requests[i].status = "pending" /\ requests[i].queue_position # NULL
    /\ actions = <<>>

\* C6: no write committed by a principal whose role is employee changes the
\* status of any request, not even of a request that principal submitted
C6_StoreDeniesEmployee ==
  [][\A u \in Users :
       (role[u] = "employee" /\ pc[u] = "updating" /\ pc'[u] # "updating") =>
         \A i \in DOMAIN requests : requests'[i].status = requests[i].status]_vars

\* C7: a decide on a request that was already approved or rejected when it
\* was called changes neither the requests nor the action log in any of its
\* steps, and does not return success
C7_TerminalDecideIsConflict ==
  [][\A u \in Users :
       (call[u].op = "decide" /\ call[u].was \in Terminal /\ Steps(u)) =>
         /\ requests' = requests
         /\ actions' = actions
         /\ call'[u].outcome # "success"]_vars

\* C8: at most one approval action references any request
C8_SingleAction ==
  \A r \in Ids : Cardinality(ActionsFor(r)) <= 1

\* C9: with no decide call in flight, a request has an approval action
\* exactly when its status is approved or rejected
C9_ActionIffTerminal ==
  NoDecideInFlight =>
    \A i \in DOMAIN requests :
      (ActionsFor(i) # {}) <=> (requests[i].status \in Terminal)

\* C10: of two decide calls with different decisions, both made while the
\* request was pending, exactly one succeeds and the other fails, the final
\* status is the winner's decision and exactly one approval action exists
C10_ExactlyOneWinner ==
  \A u, v \in Users :
    ( /\ u # v
      /\ call[u].op = "decide" /\ call[v].op = "decide"
      /\ call[u].req = call[v].req
      /\ call[u].was = "pending" /\ call[v].was = "pending"
      /\ call[u].action # call[v].action
      /\ pc[u] = "idle" /\ pc[v] = "idle"
      /\ call[u].outcome = "success" )
    => /\ call[v].outcome = "error"
       /\ requests[call[u].req].status = call[u].action
       /\ Cardinality(ActionsFor(call[u].req)) = 1


\* ------------------------------------------ properties of the maintainer
\* session u's statement runs in this step and leaves a transaction open
Executes(u) == tx'[u] # tx[u] /\ tx'[u] # NoTx

\* session u's insert commits in this step
InsertCommits(u) ==
  pc[u] = "inserting" /\ pc'[u] = "idle" /\ DOMAIN requests' # DOMAIN requests

\* session u's status update of a request commits in this step
DecideCommits(u) ==
  pc[u] = "updating" /\ pc'[u] = "acting" /\ tx[u].row # NULL

\* the positions of the pending rows of tbl are 1..n without duplicates
Dense(tbl) ==
  LET P == {i \in DOMAIN tbl : tbl[i].status = "pending"}
  IN  /\ {tbl[i].queue_position : i \in P} = 1..Cardinality(P)
      /\ \A i, j \in P : i # j => tbl[i].queue_position # tbl[j].queue_position

\* an earlier created_at among the pending rows of tbl has the lower position
Ordered(tbl) ==
  \A i, j \in DOMAIN tbl :
    (/\ tbl[i].status = "pending" /\ tbl[j].status = "pending"
     /\ tbl[i].created_at < tbl[j].created_at)
      => tbl[i].queue_position < tbl[j].queue_position

\* C11: when a submit commits, no pending request that was created at
\* another time and committed after the submit's statement read the table
\* (so the two transactions overlapped) holds the queue position of the
\* committed row
C11_OverlappingSubmitsDistinct ==
  [][\A u \in Users :
       InsertCommits(u) =>
         \A i \in DOMAIN requests \ tx[u].snap :
           (/\ requests'[i].status = "pending"
            /\ tx[u].ins[1].status = "pending"
            /\ requests'[i].created_at # tx[u].ins[1].created_at)
             => requests'[i].queue_position # tx[u].ins[1].queue_position]_vars

\* C12: whenever the maintainer recomputes, running the same recompute again
\* on the table its rewrites leave behind writes no row
C12_Idempotent ==
  [][\A u \in Users :
       (Executes(u) /\ tx'[u].ran > 0) =>
         LET tg_op == IF tx'[u].ins # <<>> THEN "INSERT" ELSE "UPDATE"
             S     == RankedRequests(requests, tg_op, tx'[u].row)
             others == OtherRows(tx'[u])
             after == [i \in DOMAIN requests |->
                         IF i \in DOMAIN others THEN others[i] ELSE requests[i]]
         IN  \A rn \in RowNumbers(after, S) :
               RerankedRows(after, S, rn) = NoWrites]_vars

\* C13: a committed insert of a pending request gives the new row the
\* position 1 + the number of pending requests with a strictly earlier
\* created_at
C13_InsertPosition ==
  [][\A u \in Users :
       InsertCommits(u) =>
         \A j \in DOMAIN requests' \ DOMAIN requests :
           requests'[j].status = "pending" =>
             requests'[j].queue_position =
               1 + Cardinality({i \in DOMAIN requests' :
                                  /\ requests'[i].status = "pending"
                                  /\ requests'[i].created_at
                                       < requests'[j].created_at})]_vars

C13_Witness ==
  \E u \in Users, i, j, k \in DOMAIN requests :
    /\ pc[u] = "idle" /\ call[u].op = "submit" /\ call[u].outcome = "success"
    /\ i < k /\ j < k /\ k = Cardinality(DOMAIN requests)
    /\ requests[i].status = "pending" /\ requests[j].status # "pending"
    /\ requests[i].created_at < requests[k].created_at
    /\ requests[j].created_at < requests[k].created_at
    /\ requests[k].status = "pending" /\ requests[k].queue_position = 2

\* every request of tbl is pending, nothing was ever decided, and the
\* requests were created at strictly increasing times in the order of their
\* insertion
SubmittedInOrder(tbl) ==
  /\ actions = <<>>
  /\ \A i \in DOMAIN tbl : tbl[i].status = "pending"
  /\ \A i, j \in DOMAIN tbl : i < j => tbl[i].created_at < tbl[j].created_at

\* C14: a submit into a queue built by submits at strictly increasing times
\* leaves the earlier requests as they were, and the k requests hold the
\* positions 1..k in the order of their submission
C14_SequentialSubmits ==
  [][\A u \in Users :
       (InsertCommits(u) /\ SubmittedInOrder(requests) /\ SubmittedInOrder(requests'))
         => /\ \A i \in DOMAIN requests : requests'[i] = requests[i]
            /\ \A i \in DOMAIN requests' : requests'[i].queue_position = i]_vars

C14_Witness ==
  /\ Cardinality(DOMAIN requests) = 3
  /\ SubmittedInOrder(requests)
  /\ \A i \in DOMAIN requests : requests[i].queue_position = i
  /\ \E u \in Users : pc[u] = "idle" /\ call[u].op = "submit"
                       /\ call[u].outcome = "success"

\* C15: when the decision of the pending request at position p commits in a
\* dense and ordered queue, the pending requests before p keep their
\* positions and those behind p move up by exactly one
C15_GapClosed ==
  [][\A u \in Users :
       (/\ DecideCommits(u)
        /\ requests[tx[u].row].status = "pending"
        /\ requests'[tx[u].row].status \in Terminal
        /\ Dense(requests) /\ Ordered(requests))
         => \A i \in PendingIds \ {tx[u].row} :
              LET p == requests[tx[u].row].queue_position
                  q == requests[i].queue_position
              IN  /\ q < p => requests'[i].queue_position = q
                  /\ q > p => requests'[i].queue_position = q - 1]_vars

\* C16: an update that changes a request's title, and so does not name
\* status, runs no recompute and leaves every status and queue position
\* as it was
C16_UnrelatedUpdateFrame ==
  [][\A u \in Users :
       (/\ pc[u] = "updating" /\ pc'[u] = "idle" /\ tx[u].row # NULL
        /\ tx[u].upd[tx[u].row].title # requests[tx[u].row].title)
         => /\ tx[u].ran = 0
            /\ DOMAIN requests' = DOMAIN requests
            /\ \A i \in DOMAIN requests :
                 /\ requests'[i].status = requests[i].status
                 /\ requests'[i].queue_position = requests[i].queue_position]_vars

C16_Witness ==
  /\ NoTransactionInFlight
  /\ \E i, j \in PendingIds :
       /\ i # j
       /\ requests[i].title = "edited"
       /\ requests[i].queue_position = requests[j].queue_position

\* C17: a statement runs the recompute exactly if it inserts a pending
\* request or updates a request's status to a different value, into or out
\* of pending
C17_RecomputeIffStatusChange ==
  [][\A u \in Users :
       Executes(u) =>
         (tx'[u].ran > 0
            <=> \/ tx'[u].ins # <<>> /\ tx'[u].ins[1].status = "pending"
                \/ /\ tx'[u].row # NULL
                   /\ requests[tx'[u].row].status # tx'[u].upd[tx'[u].row].status
                   /\ "pending" \in {requests[tx'[u].row].status,
                                     tx'[u].upd[tx'[u].row].status})]_vars

\* C18: the statement of a submit, and of a decision on a pending request,
\* runs the recompute exactly once, whatever rows the recompute rewrites
C18_OneRecompute ==
  [][\A u \in Users :
       (/\ Executes(u)
        /\ \/ tx'[u].ins # <<>>
           \/ tx'[u].row # NULL /\ requests[tx'[u].row].status = "pending")
         => tx'[u].ran = 1]_vars

C18_Witness ==
  \E u \in Users :
    /\ pc[u] = "updating" /\ tx[u].ran = 1
    /\ DOMAIN OtherRows(tx[u]) # {}

C20_DenseAfterDelete ==
  [][(/\ DOMAIN requests' # DOMAIN requests
      /\ DOMAIN requests' \subseteq DOMAIN requests
      /\ \E i \in PendingIds : i \notin DOMAIN requests'
      /\ Dense(requests))
       => Dense(requests')]_vars


\* ---------------------------------------------- properties of the contract
\* C21: no request has an empty title: a submit with an empty title creates
\* no request
C21_NoEmptyTitle ==
  \A i \in DOMAIN requests : requests[i].title # ""


\* C22: a step of a session whose principal is not an admin changes no
\* profile's role
C22_OnlyAdminChangesRoles ==
  [][\A u \in Users :
       (call'[u] # call[u] /\ role[u] # "admin") => role' = role]_vars

\* C23: when updateUserRole, called by an admin, reports success, the
\* target's stored role is the new role
C23_RoleChangeTakesEffect ==
  [][\A u \in Users :
       (/\ call'[u] # call[u] /\ role[u] = "admin"
        /\ call'[u].op = "role" /\ call'[u].outcome = "success")
         => role'[call'[u].target] = call'[u].newRole]_vars


\* C24: in every step, each action whose request still exists afterwards is
\* still in the log, with all its fields as they were
C24_AppendOnly ==
  [][\A k \in 1..Len(actions) :
       actions[k].request_id \in DOMAIN requests'
         => \E n \in 1..Len(actions') : actions'[n] = actions[k]]_vars

\* C25: in every step, a row whose queue_position differs from what it held
\* before (or that is new and holds a position) is pending afterwards, and
\* the step commits a transaction in which the maintainer ran: no client
\* write leaves a position of its own in the table
C25_OnlyMaintainerWritesPosition ==
  [][\A i \in DOMAIN requests' :
       (IF i \in DOMAIN requests
        THEN requests'[i].queue_position # requests[i].queue_position
        ELSE requests'[i].queue_position # NULL)
         => /\ requests'[i].status = "pending"
            /\ \E u \in Users : tx[u].ran > 0 /\ tx'[u] = NoTx]_vars

\* C26: every stored request's status is pending, approved or rejected, and
\* the admin statistics computed from the table satisfy
\* pendingRequests + approvedRequests + rejectedRequests = totalRequests
C26_StatusEnumAndStats ==
  /\ \A i \in DOMAIN requests : requests[i].status \in Statuses
  /\ LET st == stats(requests)
     IN  st.pendingRequests + st.approvedRequests + st.rejectedRequests = st.totalRequests

\* every change event has been delivered and no fetchData call is in flight
Settled ==
  /\ NoTransactionInFlight
  /\ \A u \in Users : pc[u] = "idle"
  /\ notified = Contents
  /\ FreeSlots = 1..MaxFetches

\* C27: once the writes have stopped, their events are delivered and every
\* fetchData call has returned, the page's request list is the committed
\* contents of the request table
C27_ViewIsLatest == Settled => view.requests = requests

\* C28: with no transaction in flight, two pending requests with the same
\* created_at hold different queue positions, the one inserted first the
\* lower
C28_TiesByInsertionOrder ==
  NoTransactionInFlight =>
    \A i, j \in PendingIds :
      (i < j /\ requests[i].created_at = requests[j].created_at)
        => requests[i].queue_position < requests[j].queue_position

\* C29: in every step in which a row becomes a pending row of the table (a
\* committed insert, or a committed update that moves it into pending), each
\* request that is pending before and after the step and has a later
\* created_at than that row holds its former position plus one
C29_LaterRowsShift ==
  [][\A r \in DOMAIN requests' :
       (/\ requests'[r].status = "pending"
        /\ r \in DOMAIN requests => requests[r].status # "pending")
         => \A i \in PendingIds \ {r} :
              (/\ i \in DOMAIN requests'
               /\ requests'[i].status = "pending"
               /\ requests[i].created_at > requests'[r].created_at)
                => requests'[i].queue_position = requests[i].queue_position + 1]_vars

\* C30: when a transaction whose trigger recomputed commits, every other
\* row whose queue position is the same before and after is the same row in
\* every column, updated_at included, and every other row the transaction
\* wrote has a position different from the one it held
C30_UnchangedRankNotWritten ==
  [][\A u \in Users :
       ((InsertCommits(u) \/ DecideCommits(u)) /\ tx[u].ran > 0)
         => /\ \A i \in DOMAIN requests \ {tx[u].row} :
                 requests'[i].queue_position = requests[i].queue_position
                   => requests'[i] = requests[i]
            /\ \A i \in DOMAIN OtherRows(tx[u]) :
                 tx[u].upd[i].queue_position # requests[i].queue_position]_vars

\* a decision of a pending request has just committed, and another pending
\* request, ranked by that recompute, still carries an updated_at from
\* before the current time
C30_Witness ==
  \E u \in Users :
    /\ pc[u] = "acting" /\ call[u].was = "pending"
    /\ \E i \in PendingIds : i # call[u].req /\ requests[i].updated_at < now

\* C31: whenever a statement's trigger recomputes, every other row it
\* rewrites is a pending row, and its new version has the status,
\* created_at, submitter and title of the stored row
C31_RecomputeFrame ==
  [][\A u \in Users :
       (Executes(u) /\ tx'[u].ran > 0) =>
         \A i \in DOMAIN OtherRows(tx'[u]) :
           /\ requests[i].status = "pending"
           /\ tx'[u].upd[i].status = requests[i].status
           /\ tx'[u].upd[i].created_at = requests[i].created_at
           /\ tx'[u].upd[i].user_id = requests[i].user_id
           /\ tx'[u].upd[i].title = requests[i].title]_vars

\* a recompute has rewritten another row while a decided request is stored
C31_Witness ==
  \E u \in Users :
    /\ tx[u].ran > 0
    /\ DOMAIN OtherRows(tx[u]) # {}
    /\ \E i \in DOMAIN requests : i # tx[u].row /\ requests[i].status \in Terminal

\* C32: every step that adds a row to the action log is taken by a
\* principal whose stored role is approver or admin and the row carries that
\* principal's id as approver_id; an insert sent by a principal without that
\* role, or naming another approver_id, returns an error and leaves the log
\* as it was
C32_OnlyDecidersLogAsThemselves ==
  [][/\ Len(actions') > Len(actions) =>
          \E u \in Users :
            /\ call'[u].op \in {"decide", "log"} /\ call'[u].outcome = "success"
            /\ call'[u].req = actions'[Len(actions')].request_id
            /\ IsDecider(u)
            /\ actions'[Len(actions')].approver_id = u
     /\ \A u \in Users :
          (/\ call'[u] # call[u] /\ call'[u].op = "log"
           /\ ~(IsDecider(u) /\ call'[u].target = u))
            => call'[u].outcome = "error" /\ actions' = actions]_vars

\* the log holds a row, and an insert naming an existing request was refused
C32_Witness ==
  /\ actions # <<>>
  /\ \E u \in Users :
       /\ call[u].op = "log" /\ call[u].outcome = "error"
       /\ call[u].req \in DOMAIN requests

\* C33: a decision whose status update is in flight and does not commit
\* ends with the outcome error and the log as it was, and every step in
\* which a decision appends to the log starts after its update has
\* committed (the handler stands behind the update, no error reported)
C33_ActionAfterUpdate ==
  [][\A u \in Users :
       /\ (pc[u] = "updating" /\ call[u].op = "decide" /\ pc'[u] = "idle")
            => actions' = actions /\ call'[u].outcome = "error"
       /\ (call[u].op = "decide" /\ pc'[u] # pc[u] /\ Len(actions') > Len(actions))
            => /\ pc[u] = "acting" /\ call[u].outcome = "inflight"
               /\ tx[u] = NoTx]_vars

\* a decision of a pending request failed at its update: the request is
\* still pending and the log holds no action for it
C33_Witness ==
  \E u \in Users :
    /\ pc[u] = "idle" /\ call[u].op = "decide" /\ call[u].outcome = "error"
    /\ call[u].was = "pending"
    /\ call[u].req \in PendingIds
    /\ ActionsFor(call[u].req) = {}

\* the queue position row i holds once transaction t is applied to the table
PositionAfter(t, i) ==
  IF i \in DOMAIN t.upd THEN t.upd[i].queue_position ELSE requests[i].queue_position

\* C34: whenever a statement of any principal u recomputes, the positions its
\* transaction leaves on the other pending rows are a ROW_NUMBER numbering of
\* those rows by created_at, a function of the table alone: whoever the
\* caller is and whichever of those rows its own policies let it update, the
\* positions are the same
C34_RecomputeIgnoresCaller ==
  [][\A u \in Users :
       (Executes(u) /\ tx'[u].ran > 0) =>
         LET tg_op == IF tx'[u].ins # <<>> THEN "INSERT" ELSE "UPDATE"
             S     == RankedRequests(requests, tg_op, tx'[u].row)
         IN  \E rn \in RowNumbers(requests, S) :
               \A i \in S : PositionAfter(tx'[u], i) = rn[i]]_vars

\* a transaction holds the rewrite of a row that its principal's policies
\* do not let it update
C34_Witness ==
  \E u \in Users :
    /\ tx[u].ran > 0
    /\ \E i \in DOMAIN OtherRows(tx[u]) : ~CanUpdateRequest(u, requests[i])

\* C35: a request committed by principal u's insert carries u as its
\* user_id, and no step changes the user_id of a stored request: so every
\* request's user_id is the principal that inserted it
C35_SubmitterIsInserter ==
  [][/\ \A u \in Users :
          InsertCommits(u) =>
            \A i \in DOMAIN requests' \ DOMAIN requests : requests'[i].user_id = u
     /\ \A i \in DOMAIN requests \cap DOMAIN requests' :
          requests'[i].user_id = requests[i].user_id]_vars

\* C36: the comment stored with an action is the default text of its
\* decision or a text that was typed while the action's request was the
\* selected request
C36_CommentOfItsRequest ==
  \A k \in 1..Len(actions) :
    actions[k].comment \in {DefaultComment, actions[k].request_id}

\* C37: in every step in which a fetchData call returns, loading is false
\* afterwards; if the call returns on an error of its first or second
\* query, the displayed requests and actions are what they were; and the
\* displayed lists change only when both queries were answered, and then
\* both lists become what the two queries returned
C37_FetchAllOrNothing ==
  [][\A k \in 1..MaxFetches :
       (fetches[k].stage # "free" /\ fetches'[k].stage = "free") =>
         /\ view'.loading = FALSE
         /\ fetches[k].stage \in {"requests", "actions"}
              => view'.requests = view.requests /\ view'.actions = view.actions
         /\ (view'.requests # view.requests \/ view'.actions # view.actions)
              => /\ fetches[k].stage = "set"
                 /\ view'.requests = fetches[k].requests
                 /\ view'.actions = fetches[k].actions]_vars

\* every call has returned, loading is false, the page shows actions, and
\* its request list is not the table's
C37_Witness ==
  /\ FreeSlots = 1..MaxFetches
  /\ NoTransactionInFlight
  /\ ~view.loading
  /\ view.actions # <<>>
  /\ view.requests # requests

====
